---- MODULE Spec2Model ----
(***************************************************************************)
(* A model of the peggy PEG engine (src/python/peggy/peg.py): the matcher  *)
(* classes, the memoized Symbol.match dispatch, the YYtext result nodes    *)
(* and the deferred evaluation of semantic actions.                        *)
(*                                                                         *)
(* Text is a sequence of one-character strings.  A matcher object is an    *)
(* index into the table `symbols` (object identity = index), so that two   *)
(* structurally equal matchers are still two memo keys, as in the code.    *)
(***************************************************************************)
EXTENDS Integers, Sequences, FiniteSets, TLC

VARIABLES
    symbols,    \* the matcher objects: index -> fields of the Symbol instance
    inputSeq,   \* InputSeq.inputSeq of the session
    cursor,     \* InputSeq.pos of the session
    second,     \* a second InputSeq the client holds: its inputSeq, pos and memo
    memo,       \* Memo.memo of the session: (symbol, pos) -> outcome
    parsed,     \* instrumentation: (symbol, pos) -> number of parse() runs
    attempts,   \* instrumentation: <<caller, callerPos, slot, callee, calleePos>>
    tree,       \* what the client holds: the outcome of its last match call
    ncalls,     \* number of top-level operations performed so far
    last        \* the last top-level operation and what it returned

vars == <<symbols, inputSeq, cursor, second, memo, parsed, attempts, tree, ncalls, last>>

----------------------------------------------------------------------------
(* Bounds *)

MaxLen == 3      \* longest input text
MaxCalls == 2    \* match calls on one session
MaxOps == 3      \* match calls, attachments and evaluations of one client

Alphabet == {"a", "b"}

RECURSIVE Texts(_)
Texts(n) ==
    IF n = 0 THEN {<<>>}
    ELSE LET shorter == Texts(n - 1)
         IN shorter \cup {Append(t, c) : t \in {u \in shorter : Len(u) = n - 1}, c \in Alphabet}

Inputs == Texts(MaxLen)

\* ord() of a character, for the character class of Range
Ord(c) == IF c = "a" THEN 97 ELSE IF c = "b" THEN 98 ELSE 99

----------------------------------------------------------------------------
(* Python slicing on the input text *)

Min(x, y) == IF x < y THEN x ELSE y

\* seq[i:j] for 0 <= i, 0 <= j (0-based, clamped at the end as Python does)
Slice(seq, i, j) ==
    LET lo == Min(i, Len(seq))
        hi == Min(j, Len(seq))
    IN IF hi <= lo THEN <<>> ELSE SubSeq(seq, lo + 1, hi)

\* seq[i:]
SliceFrom(seq, i) == Slice(seq, i, Len(seq))

----------------------------------------------------------------------------
(* Outcomes: Undefined (peg.py:10), None, and the result nodes *)

Undefined == [cls |-> "Undefined"]
None == [cls |-> "None"]

\* the name a node gets when the caller passes none: symbol.__class__.name,
\* which is the class-level property object, not a string (peg.py:58, 117)
ClassNameProperty == "<property>"

\* YYtext.__init__
YYtext(symbol, pos, text, name) ==
    [cls |-> "YYtext", symbol |-> symbol, yytext |-> text, pos |-> pos,
     child |-> <<>>, name |-> name, ignored |-> <<>>]

\* YYignore.__init__ : a YYtext that also keeps the node it hides
YYignore(symbol, pos, text, ignoredNode, name) ==
    [cls |-> "YYignore", symbol |-> symbol, yytext |-> text, pos |-> pos,
     child |-> <<>>, name |-> name, ignored |-> <<ignoredNode>>]

IsNode(x) == x.cls \in {"YYtext", "YYignore"}

RECURSIVE YYlen(_)
\* YYtext.__len__ (inherited by YYignore): the consumed length
YYlen(node) ==
    LET RECURSIVE SumLen(_)
        SumLen(i) == IF i = 0 THEN 0 ELSE SumLen(i - 1) + YYlen(node.child[i])
    IN Len(node.yytext) + SumLen(Len(node.child))

RECURSIVE YYstr(_)
\* YYtext.__str__ and its override YYignore.__str__ : the rendered text
YYstr(node) ==
    LET RECURSIVE Join(_)
        Join(i) == IF i = 0 THEN <<>> ELSE Join(i - 1) \o YYstr(node.child[i])
    IN IF node.cls = "YYignore" THEN <<>>
       ELSE node.yytext \o Join(Len(node.child))

\* YYtext.__add__ : a new node with `other` appended, or Undefined when
\* `other` does not start where `self` ends
YYadd(self, other) ==
    IF self.pos + YYlen(self) # other.pos
    THEN Undefined
    ELSE [YYtext(self.symbol, self.pos, self.yytext, self.name)
              EXCEPT !.child = Append(self.child, other)]

----------------------------------------------------------------------------
(* Semantic values: what an evaluation returns *)

\* the default: str(self)
TextValue(text) == [by |-> "str", text |-> text, items |-> <<>>]

\* Ident(str(yytext)), the value of Identifier_action (grammar.py:55-56)
IdentValue(text) == [by |-> "Ident", text |-> text, items |-> <<>>]

\* Sequence(*tuple(...)), the value of Sequence__action (grammar.py:86-89)
SequenceValue(items) == [by |-> "Sequence", text |-> <<>>, items |-> items]

----------------------------------------------------------------------------
(* The matcher objects.  Every Symbol instance carries the same fields     *)
(* here; a class leaves unset the ones its __init__ does not assign.       *)

NoAction == "None"      \* Symbol.action = None (peg.py:107)
NoName == ""            \* Symbol.__name = None (peg.py:106)

Obj(cls) ==
    [cls |-> cls, pattern |-> <<>>, length |-> 0, a |-> "", b |-> "",
     symbol |-> <<>>, originalSymbol |-> 0, name |-> NoName, action |-> NoAction]

\* String.__init__
String(pattern) == [Obj("String") EXCEPT !.pattern = pattern, !.length = Len(pattern)]

\* Range.__init__ : Regexp('[' + a + '-' + b + ']')
Range(a, b) == [Obj("Range") EXCEPT !.a = a, !.b = b, !.pattern = <<"[", a, "-", b, "]">>]

Dot == Obj("Dot")

\* Sequence.__init__ ; Choice inherits it
Sequence(subs) == [Obj("Sequence") EXCEPT !.symbol = subs]
Choice(subs) == [Obj("Choice") EXCEPT !.symbol = subs]

\* Star.__init__, And.__init__, Not.__init__, Ignore.__init__
Star(x) == [Obj("Star") EXCEPT !.symbol = <<x>>]
And(x) == [Obj("And") EXCEPT !.symbol = <<x>>]
Not(x) == [Obj("Not") EXCEPT !.symbol = <<x>>]
Ignore(x) == [Obj("Ignore") EXCEPT !.symbol = <<x>>]

\* Plus.__init__ : self.symbol = Sequence(symbol, Star(symbol)); `seq` is the
\* index of that freshly built Sequence
Plus(x, seq) == [Obj("Plus") EXCEPT !.symbol = <<seq>>, !.originalSymbol = x]

\* Optional.__init__ : self.symbol = Choice(symbol, String('')); `choice` is
\* the index of that freshly built Choice
Optional(choice) == [Obj("Optional") EXCEPT !.symbol = <<choice>>]

tA == <<"a">>
tB == <<"b">>

\* The grammar objects the model builds, most of them taken from the demo
\* of peg.py (lines 416-499) and from grammar.py.
Grammar ==
    << String(<<>>),                 \*  1  ''
       String(tA),                   \*  2  'a'
       String(tB),                   \*  3  'b'
       String(tA \o tB),             \*  4  'ab'
       String(tA \o tA),             \*  5  'aa'
       String(tB \o tA),             \*  6  'ba'
       String(tB \o tB),             \*  7  'bb'
       Dot,                          \*  8  .
       Range("a", "b"),              \*  9  [a-b]
       Range("a", "a"),              \* 10  Range('a')
       Sequence(<<2, 3>>),           \* 11  ('a' 'b')
       Star(2),                      \* 12  'a'*
       Sequence(<<12, 3>>),          \* 13  ('a'* 'b')
       Star(9),                      \* 14  [a-b]*
       Sequence(<<14, 2>>),          \* 15  ([a-b]* 'a')     a*a always fails
       Choice(<<2, 4>>),             \* 16  ('a'|'ab')
       Choice(<<4, 2>>),             \* 17  ('ab'|'a')
       Choice(<<3>>),                \* 18  ('b')
       Choice(<<5, 3, 8>>),          \* 19  ('aa'|'b'|.)
       Choice(<<2, 3>>),             \* 20  ('a'|'b')
       Star(20),                     \* 21  ('a'|'b')*
       Not(3),                       \* 22  !'b'
       Star(22),                     \* 23  !'b'*
       Sequence(<<22, 2>>),          \* 24  (!'b' 'a')
       Star(24),                     \* 25  (!'b' 'a')*
       And(4),                       \* 26  &'ab'
       Not(8),                       \* 27  !.               end of file
       And(12),                      \* 28  &'a'*
       Ignore(2),                    \* 29  Ignore('a')
       Ignore(12),                   \* 30  Ignore('a'*)     like Spacing
       Sequence(<<30, 3>>),          \* 31  (Ignore('a'*) 'b')
       Sequence(<<29, 3>>),          \* 32  (Ignore('a') 'b')
       Ignore(32),                   \* 33  Ignore((Ignore('a') 'b'))
       Sequence(<<33, 2>>),          \* 34  (Ignore((Ignore('a') 'b')) 'a')
       Ignore(29),                   \* 35  Ignore(Ignore('a'))
       Star(1),                      \* 36  ''*
       Star(2),                      \* 37  built by Plus('a')
       Sequence(<<2, 37>>),          \* 38  built by Plus('a')
       Plus(2, 38),                  \* 39  'a'+
       Sequence(<<2, 12>>),          \* 40  ('a' 'a'*)
       Star(20),                     \* 41  built by Plus(('a'|'b'))
       Sequence(<<20, 41>>),         \* 42  built by Plus(('a'|'b'))
       Plus(20, 42),                 \* 43  ('a'|'b')+
       Sequence(<<20, 21>>),         \* 44  (('a'|'b') ('a'|'b')*)
       Star(1),                      \* 45  built by Plus('')
       Sequence(<<1, 45>>),          \* 46  built by Plus('')
       Plus(1, 46),                  \* 47  ''+
       Sequence(<<1, 36>>),          \* 48  ('' ''*)
       String(<<>>),                 \* 49  built by Optional('a')
       Choice(<<2, 49>>),            \* 50  built by Optional('a')
       Optional(50),                 \* 51  'a'?
       Choice(<<2, 1>>),             \* 52  ('a'|'')
       String(<<>>),                 \* 53  built by Optional('ab')
       Choice(<<4, 53>>),            \* 54  built by Optional('ab')
       Optional(54),                 \* 55  'ab'?
       Choice(<<4, 1>>),             \* 56  ('ab'|'')
       String(<<>>),                 \* 57  built by Optional(!'b')
       Choice(<<22, 57>>),           \* 58  built by Optional(!'b')
       Optional(58),                 \* 59  !'b'?
       Choice(<<22, 1>>),            \* 60  (!'b'|'')
       Star(51),                     \* 61  'a'?*
       Sequence(<<>>),               \* 62  ()
       Sequence(<<11, 2>>),          \* 63  (('a' 'b') 'a')
       Sequence(<<12, 51, 3>>),      \* 64  ('a'* 'a'? 'b')
       Choice(<<11, 29>>)            \* 65  (('a' 'b')|Ignore('a'))
    >>

Symbols == DOMAIN Grammar

\* Symbol.name (the property, peg.py:109-117)
NameOf(self) ==
    IF symbols[self].name = NoName THEN symbols[self].cls ELSE symbols[self].name

----------------------------------------------------------------------------
(* Evaluation of a result node *)

\* the action functions a client attaches (grammar.py)
Actions == {"Identifier_action", "Sequence__action"}

\* a YYtext.__call__ that looks the action up on the class, where it is None
YYcallClassAction(node) == TextValue(YYstr(node))

RECURSIVE YYcall(_)
\* YYtext.__call__ : the action of the node's matcher applied to the node,
\* or str(self) when the matcher has none
YYcall(node) ==
    LET action == symbols[node.symbol].action
        RECURSIVE EachChild(_)
        EachChild(i) == IF i = 0 THEN <<>> ELSE Append(EachChild(i - 1), YYcall(node.child[i]))
    IN IF action = NoAction THEN TextValue(YYstr(node))
       ELSE IF action = "Identifier_action" THEN IdentValue(YYstr(node))
       ELSE SequenceValue(EachChild(Len(node.child)))    \* x() for x in yytext.child

----------------------------------------------------------------------------
(* The memo table (class Memo) *)

\* a Memo.__call__ of a table keyed by the matcher alone
MemoCallAnyPosition(table, symbol, pos) ==
    LET keys == {k \in DOMAIN table : k[1] = symbol}
    IN IF keys # {} THEN table[CHOOSE k \in keys : TRUE] ELSE Undefined

\* Memo.__call__ / Memo.__getitem__ : self.memo.get((symbol, pos), Undefined)
MemoCall(table, symbol, pos) ==
    IF <<symbol, pos>> \in DOMAIN table THEN table[<<symbol, pos>>] ELSE Undefined

\* Memo.__setitem__ : self.memo[k] = val
MemoSet(table, k, val) ==
    [x \in (DOMAIN table) \cup {k} |-> IF x = k THEN val ELSE table[x]]

----------------------------------------------------------------------------
(* What one call threads through the recursion: the InputSeq object it was  *)
(* given (inputSeq, pos and memo), the instrumentation, and whether the     *)
(* call ended in a Python exception (raised) or would never end (diverged). *)

Ret(res, st) == [res |-> res, st |-> st]
Raise(st) == [res |-> Undefined, st |-> [st EXCEPT !.raised = TRUE]]
Diverge(st) == [res |-> Undefined, st |-> [st EXCEPT !.diverged = TRUE]]
Stopped(st) == st.raised \/ st.diverged

\* instrumentation: `caller`, parsing at callerPos, calls callee.match(at)
\* from its sub-matcher slot (for Star: its repetition number)
Attempt(st, caller, callerPos, slot, callee, at) ==
    [st EXCEPT !.attempts = @ \cup {<<caller, callerPos, slot, callee, at>>}]

\* instrumentation: one more run of self.parse at pos
CountParse(st, self, pos) ==
    [st EXCEPT !.parsed = MemoSet(@, <<self, pos>>,
                                  IF <<self, pos>> \in DOMAIN @ THEN @[<<self, pos>>] + 1 ELSE 1)]

\* the while loop of Star.parse runs once per non-empty repetition, and a
\* non-empty repetition needs input: more rounds than this never end
StarFuel(st) == Len(st.inputSeq) + 1

RECURSIVE match(_, _, _), parse(_, _, _)
RECURSIVE SequenceLoop(_, _, _, _, _), StarLoop(_, _, _, _, _, _, _), ChoiceLoop(_, _, _, _)

\* a String.parse that compares the whole rest of the input with the pattern
StringParseWholeRest(self, pos, st) ==
    IF SliceFrom(st.inputSeq, pos) # symbols[self].pattern
    THEN Ret(None, st)
    ELSE Ret(YYtext(self, pos, symbols[self].pattern, NameOf(self)), st)

\* String.parse
StringParse(self, pos, st) ==
    IF Len(SliceFrom(st.inputSeq, pos)) < Len(symbols[self].pattern)
    THEN Ret(None, st)
    ELSE IF Slice(st.inputSeq, pos, pos + symbols[self].length) # symbols[self].pattern
    THEN Ret(None, st)
    ELSE Ret(YYtext(self, pos, symbols[self].pattern, NameOf(self)), st)

\* Regexp.parse for the pattern '[a-b]' that Range builds: re.match on
\* inputSequence[pos:] matches one character of the class, or nothing
RegexpParse(self, pos, st) ==
    LET rest == SliceFrom(st.inputSeq, pos)
    IN IF /\ Len(rest) > 0
          /\ Ord(symbols[self].a) <= Ord(rest[1])
          /\ Ord(rest[1]) <= Ord(symbols[self].b)
       THEN Ret(YYtext(self, pos, <<rest[1]>>, NameOf(self)), st)
       ELSE Ret(None, st)

\* Dot.parse
DotParse(self, pos, st) ==
    IF pos = Len(st.inputSeq) THEN Ret(None, st)
    ELSE IF pos > Len(st.inputSeq) THEN Raise(st)      \* IndexError
    ELSE Ret(YYtext(self, pos, <<st.inputSeq[pos + 1]>>, NameOf(self)), st)

\* the declared lengths of the patterns of the first n sub-matchers
RECURSIVE DeclaredLength(_, _)
DeclaredLength(subs, n) ==
    IF n = 0 THEN 0 ELSE DeclaredLength(subs, n - 1) + symbols[subs[n]].length

\* a Sequence.parse loop that places each sub-matcher behind the declared
\* pattern lengths of the ones before it
RECURSIVE SequenceLoopDeclared(_, _, _, _, _)
SequenceLoopDeclared(self, pos, idx, result, st) ==
    IF idx > Len(symbols[self].symbol) THEN Ret(result, st)
    ELSE IF result = Undefined THEN Raise(st)
    ELSE LET sub == symbols[self].symbol[idx]
             at == pos + DeclaredLength(symbols[self].symbol, idx - 1)
             r == match(sub, at, Attempt(st, self, pos, idx, sub, at))
         IN IF Stopped(r.st) THEN r
            ELSE IF r.res = None THEN Ret(None, r.st)
            ELSE SequenceLoopDeclared(self, pos, idx + 1, YYadd(result, r.res), r.st)

\* the for loop of Sequence.parse, from sub-matcher idx on
SequenceLoop(self, pos, idx, result, st) ==
    IF idx > Len(symbols[self].symbol) THEN Ret(result, st)
    ELSE IF result = Undefined THEN Raise(st)       \* len(Undefined): TypeError
    ELSE LET sub == symbols[self].symbol[idx]
             at == pos + YYlen(result)
             r == match(sub, at, Attempt(st, self, pos, idx, sub, at))
         IN IF Stopped(r.st) THEN r
            ELSE IF r.res = None THEN Ret(None, r.st)
            ELSE SequenceLoop(self, pos, idx + 1, YYadd(result, r.res), r.st)

\* Sequence.parse
SequenceParse(self, pos, st) ==
    SequenceLoop(self, pos, 1, YYtext(self, pos, <<>>, ClassNameProperty), st)

\* a Star.parse loop without the `and len(tmp)` test
RECURSIVE StarLoopNoLengthTest(_, _, _, _, _, _, _)
StarLoopNoLengthTest(self, pos, n, result, tmp, st, fuel) ==
    IF tmp # None
    THEN IF fuel = 0 THEN Diverge(st)
         ELSE LET grown == YYadd(result, tmp)
              IN IF grown = Undefined THEN Raise(st)
                 ELSE LET sub == symbols[self].symbol[1]
                          at == pos + YYlen(grown)
                          r == match(sub, at, Attempt(st, self, pos, n + 1, sub, at))
                      IN IF Stopped(r.st) THEN r
                         ELSE StarLoopNoLengthTest(self, pos, n + 1, grown, r.res, r.st, fuel - 1)
    ELSE Ret(result, st)

\* the while loop of Star.parse: tmp is the n-th repetition's outcome
StarLoop(self, pos, n, result, tmp, st, fuel) ==
    IF tmp # None /\ YYlen(tmp) # 0
    THEN IF fuel = 0 THEN Diverge(st)
         ELSE LET grown == YYadd(result, tmp)
              IN IF grown = Undefined THEN Raise(st)    \* len(Undefined): TypeError
                 ELSE LET sub == symbols[self].symbol[1]
                          at == pos + YYlen(grown)
                          r == match(sub, at, Attempt(st, self, pos, n + 1, sub, at))
                      IN IF Stopped(r.st) THEN r
                         ELSE StarLoop(self, pos, n + 1, grown, r.res, r.st, fuel - 1)
    ELSE Ret(result, st)

\* Star.parse
StarParse(self, pos, st) ==
    LET sub == symbols[self].symbol[1]
        r == match(sub, pos, Attempt(st, self, pos, 1, sub, pos))
    IN IF Stopped(r.st) THEN r
       ELSE StarLoop(self, pos, 1, YYtext(self, pos, <<>>, ClassNameProperty),
                     r.res, r.st, StarFuel(r.st))

\* a Plus.parse that matches the Star of its Sequence alone (zero or more)
PlusParseStarOnly(self, pos, st) ==
    LET sub == symbols[symbols[self].symbol[1]].symbol[2]
    IN match(sub, pos, Attempt(st, self, pos, 1, sub, pos))

\* Plus.parse
PlusParse(self, pos, st) ==
    LET sub == symbols[self].symbol[1]
    IN match(sub, pos, Attempt(st, self, pos, 1, sub, pos))

\* a Choice.parse loop without the break: the last alternative's outcome
RECURSIVE ChoiceLoopNoBreak(_, _, _, _)
ChoiceLoopNoBreak(self, pos, idx, st) ==
    LET sub == symbols[self].symbol[idx]
        r == match(sub, pos, Attempt(st, self, pos, idx, sub, pos))
    IN IF Stopped(r.st) \/ idx = Len(symbols[self].symbol) THEN r
       ELSE ChoiceLoopNoBreak(self, pos, idx + 1, r.st)

\* the for loop of Choice.parse, from alternative idx on: the first outcome
\* that is not None, or None
ChoiceLoop(self, pos, idx, st) ==
    IF idx > Len(symbols[self].symbol) THEN Ret(None, st)
    ELSE LET sub == symbols[self].symbol[idx]
             r == match(sub, pos, Attempt(st, self, pos, idx, sub, pos))
         IN IF Stopped(r.st) \/ r.res # None THEN r
            ELSE ChoiceLoop(self, pos, idx + 1, r.st)

\* Choice.parse
ChoiceParse(self, pos, st) ==
    IF Len(symbols[self].symbol) = 0 THEN Raise(st)     \* tmp is unbound
    ELSE LET r == ChoiceLoop(self, pos, 1, st)
         IN IF Stopped(r.st) \/ r.res = None THEN r
            ELSE Ret(YYadd(YYtext(self, pos, <<>>, ClassNameProperty), r.res), r.st)

\* Optional.parse
OptionalParse(self, pos, st) ==
    LET sub == symbols[self].symbol[1]
    IN match(sub, pos, Attempt(st, self, pos, 1, sub, pos))

\* an And.parse that hands out the sub-matcher's own result
AndParseConsuming(self, pos, st) ==
    LET sub == symbols[self].symbol[1]
    IN match(sub, pos, Attempt(st, self, pos, 1, sub, pos))

\* And.parse
AndParse(self, pos, st) ==
    LET sub == symbols[self].symbol[1]
        r == match(sub, pos, Attempt(st, self, pos, 1, sub, pos))
    IN IF Stopped(r.st) THEN r
       ELSE IF r.res = None THEN Ret(None, r.st)
       ELSE Ret(YYtext(self, pos, <<>>, NameOf(self)), r.st)

\* Not.parse
NotParse(self, pos, st) ==
    LET sub == symbols[self].symbol[1]
        r == match(sub, pos, Attempt(st, self, pos, 1, sub, pos))
    IN IF Stopped(r.st) THEN r
       ELSE IF r.res # None THEN Ret(None, r.st)
       ELSE Ret(YYtext(self, pos, <<>>, NameOf(self)), r.st)

\* Ignore.parse : runs the wrapped matcher's parse, not its match
IgnoreParse(self, pos, st) ==
    LET r == parse(symbols[self].symbol[1], pos, st)
    IN IF Stopped(r.st) \/ r.res = None THEN r
       ELSE Ret(YYignore(self, pos, YYstr(r.res), r.res, NameOf(self)), r.st)

\* self.parse(inputSequence, pos): dispatch on the class of self
parse(self, pos, st) ==
    LET cls == symbols[self].cls
        counted == CountParse(st, self, pos)
    IN CASE cls = "String" -> StringParse(self, pos, counted)
         [] cls = "Range" -> RegexpParse(self, pos, counted)
         [] cls = "Dot" -> DotParse(self, pos, counted)
         [] cls = "Sequence" -> SequenceParse(self, pos, counted)
         [] cls = "Star" -> StarParse(self, pos, counted)
         [] cls = "Plus" -> PlusParse(self, pos, counted)
         [] cls = "Choice" -> ChoiceParse(self, pos, counted)
         [] cls = "Optional" -> OptionalParse(self, pos, counted)
         [] cls = "And" -> AndParse(self, pos, counted)
         [] cls = "Not" -> NotParse(self, pos, counted)
         [] cls = "Ignore" -> IgnoreParse(self, pos, counted)
         [] OTHER -> Raise(counted)                 \* Symbol.parse: NameError

\* a Symbol.match that stores successes only
matchSuccessesOnly(self, pos, st) ==
    LET result == MemoCall(st.memo, self, pos)
    IN IF result = Undefined
       THEN LET r == parse(self, pos, st)
            IN IF Stopped(r.st) \/ r.res = None THEN r
               ELSE Ret(r.res, [r.st EXCEPT !.memo = MemoSet(@, <<self, pos>>, r.res)])
       ELSE Ret(result, st)

\* a Symbol.match that leaves the cursor of the session behind what it matched
matchAdvancingCursor(self, pos, st) ==
    LET result == MemoCall(st.memo, self, pos)
        r == IF result = Undefined THEN parse(self, pos, st) ELSE Ret(result, st)
    IN IF Stopped(r.st) THEN r
       ELSE Ret(r.res, [r.st EXCEPT !.memo = MemoSet(@, <<self, pos>>, r.res),
                                    !.pos = IF IsNode(r.res) THEN pos + YYlen(r.res) ELSE @])

\* Symbol.match, lines 135-139: the memo lookup, and on a miss the parse
\* and the store of its outcome
match(self, pos, st) ==
    LET result == MemoCall(st.memo, self, pos)
    IN IF result = Undefined
       THEN LET r == parse(self, pos, st)
            IN IF Stopped(r.st) THEN r
               ELSE Ret(r.res, [r.st EXCEPT !.memo = MemoSet(@, <<self, pos>>, r.res)])
       ELSE Ret(result, st)

----------------------------------------------------------------------------
(* The session and the operations on it *)

NonePos == -1           \* pos = None in Symbol.match

Positions == 0 .. Len(inputSeq)

\* the matchers the client of a long-lived session calls match on
Roots == {13, 29, 65}

\* InputSeq.__init__ with pos = 0: the fields of a new session
InputSeq(text) == [inputSeq |-> text, pos |-> 0, memo |-> <<>>]

NoLast ==
    [op |-> "none", session |-> "none", symbol |-> 0, given |-> NonePos, pos |-> 0,
     result |-> Undefined,
     raised |-> FALSE, diverged |-> FALSE, hit |-> FALSE,
     action |-> NoAction, node |-> Undefined, value |-> Undefined]

\* InputSeq.__init__ (pos = 0) with its fresh Memo, and the grammar objects
Init ==
    /\ symbols = Grammar
    /\ inputSeq \in Inputs
    /\ cursor = 0
    /\ second = InputSeq(<<>>)
    /\ memo = <<>>
    /\ parsed = <<>>
    /\ attempts = {}
    /\ tree = Undefined
    /\ ncalls = 0
    /\ last = NoLast

\* InputSeq(inputSeq, pos) with a cursor the caller chose
InitAt ==
    /\ symbols = Grammar
    /\ inputSeq \in Inputs
    /\ cursor \in 0 .. Len(inputSeq)
    /\ second = InputSeq(<<>>)
    /\ memo = <<>>
    /\ parsed = <<>>
    /\ attempts = {}
    /\ tree = Undefined
    /\ ncalls = 0
    /\ last = NoLast

\* self.match(session, given): Symbol.match as a whole
Match(self, given) ==
    LET pos == IF given = NonePos THEN cursor ELSE given
        st0 == [inputSeq |-> inputSeq, pos |-> cursor, memo |-> memo,
                parsed |-> parsed, attempts |-> attempts,
                raised |-> FALSE, diverged |-> FALSE]
        r == match(self, pos, st0)
    IN /\ inputSeq' = r.st.inputSeq
       /\ cursor' = r.st.pos
       /\ memo' = r.st.memo
       /\ parsed' = r.st.parsed
       /\ attempts' = r.st.attempts
       /\ ncalls' = ncalls + 1
       /\ tree' = r.res
       /\ last' = [NoLast EXCEPT !.op = "match", !.session = "given", !.symbol = self,
                                 !.given = given, !.pos = pos, !.result = r.res,
                                 !.raised = r.st.raised, !.diverged = r.st.diverged,
                                 !.hit = (MemoCall(memo, self, pos) # Undefined)]
       /\ UNCHANGED <<symbols, second>>

\* a session on which the client matches its top-level rules, repeatedly
Next ==
    /\ ncalls < MaxCalls
    /\ \E self \in Roots, given \in Positions \cup {NonePos} : Match(self, given)

Spec == Init /\ [][Next]_vars

\* one match call of any matcher, at any position, on a fresh session
NextOnce ==
    /\ ncalls = 0
    /\ \E self \in Symbols, given \in Positions \cup {NonePos} : Match(self, given)

SpecOnce == InitAt /\ [][NextOnce]_vars

\* self.match(second, given): Symbol.match as a whole, on the second session
MatchOnSecond(self, given) ==
    LET pos == IF given = NonePos THEN second.pos ELSE given
        st0 == [inputSeq |-> second.inputSeq, pos |-> second.pos, memo |-> second.memo,
                parsed |-> <<>>, attempts |-> {}, raised |-> FALSE, diverged |-> FALSE]
        r == match(self, pos, st0)
    IN /\ second' = [inputSeq |-> r.st.inputSeq, pos |-> r.st.pos, memo |-> r.st.memo]
       /\ ncalls' = ncalls + 1
       /\ tree' = r.res
       /\ last' = [NoLast EXCEPT !.op = "match", !.session = "second", !.symbol = self,
                                 !.given = given, !.pos = pos, !.result = r.res,
                                 !.raised = r.st.raised, !.diverged = r.st.diverged,
                                 !.hit = (MemoCall(second.memo, self, pos) # Undefined)]
       /\ UNCHANGED <<symbols, inputSeq, cursor, memo, parsed, attempts>>

\* self.match(text, given) with a string: Symbol.match, lines 129-130, wraps
\* it in an InputSeq of its own, which nobody holds once the call is over
MatchOnText(self, text, given) ==
    LET fresh == InputSeq(text)
        pos == IF given = NonePos THEN fresh.pos ELSE given
        st0 == [inputSeq |-> fresh.inputSeq, pos |-> fresh.pos, memo |-> fresh.memo,
                parsed |-> <<>>, attempts |-> {}, raised |-> FALSE, diverged |-> FALSE]
        r == match(self, pos, st0)
    IN /\ ncalls' = ncalls + 1
       /\ tree' = r.res
       /\ last' = [NoLast EXCEPT !.op = "match", !.session = "text", !.symbol = self,
                                 !.given = given, !.pos = pos, !.result = r.res,
                                 !.raised = r.st.raised, !.diverged = r.st.diverged]
       /\ UNCHANGED <<symbols, inputSeq, cursor, second, memo, parsed, attempts>>

\* the matchers the client of two sessions calls match on
SessionRoots == {13, 65}

\* the texts of the second session: two characters, which each root can
\* match whole, match a prefix of, or fail on
SecondInputs == {text \in Inputs : Len(text) = 2}

\* two sessions, InputSeq(s) and InputSeq(t), over texts of the client's choice
InitSessions ==
    /\ symbols = Grammar
    /\ inputSeq \in Inputs
    /\ cursor = 0
    /\ second \in {InputSeq(text) : text \in SecondInputs}
    /\ memo = <<>>
    /\ parsed = <<>>
    /\ attempts = {}
    /\ tree = Undefined
    /\ ncalls = 0
    /\ last = NoLast

MatchGiven ==
    /\ ncalls < MaxCalls
    /\ \E self \in SessionRoots : Match(self, NonePos)

MatchSecond ==
    /\ ncalls < MaxCalls
    /\ \E self \in SessionRoots : MatchOnSecond(self, NonePos)

\* the client passes the text of its first session as a plain string
MatchText ==
    /\ ncalls < MaxCalls
    /\ \E self \in SessionRoots : MatchOnText(self, inputSeq, NonePos)

\* a client that matches its rules on either of its sessions, or on plain text
NextSessions == MatchGiven \/ MatchSecond \/ MatchText

SpecSessions == InitSessions /\ [][NextSessions]_vars

\* a client that matches its rules at the cursor of its session, attaches or
\* replaces their actions, and evaluates the tree it got, or a child of it
EvalRoots == {11, 39}
Attachable == {2, 11, 39}
PreAttached == 11

\* the grammar with an action attached when it was built, as grammar.py does
InitEval ==
    /\ symbols = [Grammar EXCEPT ![PreAttached].action = "Sequence__action"]
    /\ inputSeq \in Inputs
    /\ cursor = 0
    /\ second = InputSeq(<<>>)
    /\ memo = <<>>
    /\ parsed = <<>>
    /\ attempts = {}
    /\ tree = Undefined
    /\ ncalls = 0
    /\ last = NoLast

\* self.action = action
AttachAction(self, action) ==
    /\ symbols' = [symbols EXCEPT ![self].action = action]
    /\ ncalls' = ncalls + 1
    /\ last' = [NoLast EXCEPT !.op = "attach", !.symbol = self, !.action = action]
    /\ UNCHANGED <<inputSeq, cursor, second, memo, parsed, attempts, tree>>

\* node(): YYtext.__call__ as a whole
Evaluate(node) ==
    /\ ncalls' = ncalls + 1
    /\ last' = [NoLast EXCEPT !.op = "evaluate", !.node = node, !.value = YYcall(node)]
    /\ UNCHANGED <<symbols, inputSeq, cursor, second, memo, parsed, attempts, tree>>

\* the nodes the client can reach from the tree it holds
Held == IF IsNode(tree) THEN {tree} \cup {tree.child[i] : i \in DOMAIN tree.child} ELSE {}

MatchAtCursor ==
    /\ ncalls < MaxOps
    /\ \E self \in EvalRoots : Match(self, NonePos)

Attach ==
    /\ ncalls < MaxOps
    /\ \E self \in Attachable, action \in Actions : AttachAction(self, action)

Eval ==
    /\ ncalls < MaxOps
    /\ \E node \in Held : Evaluate(node)

NextEval == MatchAtCursor \/ Attach \/ Eval

SpecEval == InitEval /\ [][NextEval]_vars

----------------------------------------------------------------------------
(* Vocabulary of the properties *)

FreshState ==
    [inputSeq |-> inputSeq, pos |-> cursor, memo |-> <<>>,
     parsed |-> <<>>, attempts |-> {}, raised |-> FALSE, diverged |-> FALSE]

\* what self.match(s, pos) returns on a session of its own
Outcome(self, pos) == match(self, pos, FreshState).res

Cached(cls) == {k \in DOMAIN memo : symbols[k[1]].cls = cls}

\* the match calls that `self`, parsing at pos, made on its sub-matchers
AttemptsOf(self, pos) == {t \in attempts : t[1] = self /\ t[2] = pos}

Matches(pattern, text, i) ==
    /\ i + Len(pattern) <= Len(text)
    /\ \A j \in 1 .. Len(pattern) : text[i + j] = pattern[j]

----------------------------------------------------------------------------
\* C1: within one session the parse step of a matcher runs at most once for
\* each (matcher, position), whatever the sequence of match calls and
\* whichever parents (Ignore included) reach that pair.
C1_ParseOncePerKey ==
    \A k \in DOMAIN parsed : parsed[k] <= 1

\* C2: when m matches at i consuming k characters, Ignore(m).match(s, i)
\* succeeds with a node of consumed length k and empty rendered text, and in
\* Sequence(Ignore(m), n) the matcher n is attempted at i + k.
C2_IgnoreKeepsLength ==
    /\ \A k \in Cached("Ignore") :
          LET inner == Outcome(symbols[k[1]].symbol[1], k[2])
          IN inner # None =>
                /\ IsNode(memo[k])
                /\ YYlen(memo[k]) = YYlen(inner)
                /\ YYstr(memo[k]) = <<>>
    /\ \A k \in Cached("Sequence") :
          LET subs == symbols[k[1]].symbol
          IN (Len(subs) >= 2 /\ symbols[subs[1]].cls = "Ignore") =>
                LET inner == Outcome(symbols[subs[1]].symbol[1], k[2])
                IN inner # None =>
                      <<k[1], k[2], 2, subs[2], k[2] + YYlen(inner)>> \in attempts

----------------------------------------------------------------------------
\* the first alternative of `subs`, from idx on, that matches at pos (0: none)
RECURSIVE FirstMatching(_, _, _)
FirstMatching(subs, idx, pos) ==
    IF idx > Len(subs) THEN 0
    ELSE IF Outcome(subs[idx], pos) # None THEN idx
    ELSE FirstMatching(subs, idx + 1, pos)

\* C3: Choice(m1..mk).match(s, i) fails iff every alternative fails at i;
\* otherwise its consumed length and rendered text are those of the first
\* alternative that matches at i, and no later alternative is attempted.
C3_ChoiceFirstMatch ==
    \A k \in Cached("Choice") :
        LET self == k[1]
            i == k[2]
            subs == symbols[self].symbol
            j == FirstMatching(subs, 1, i)
        IN IF j = 0
           THEN /\ memo[k] = None
                /\ AttemptsOf(self, i) = {<<self, i, l, subs[l], i>> : l \in 1 .. Len(subs)}
           ELSE /\ IsNode(memo[k])
                /\ YYlen(memo[k]) = YYlen(Outcome(subs[j], i))
                /\ YYstr(memo[k]) = YYstr(Outcome(subs[j], i))
                /\ AttemptsOf(self, i) = {<<self, i, l, subs[l], i>> : l \in 1 .. j}

\* a Choice took its first alternative although a later one matches more
C3_Witness ==
    \E k \in Cached("Choice") :
        /\ IsNode(memo[k])
        /\ Len(symbols[k[1]].symbol) >= 2
        /\ Outcome(symbols[k[1]].symbol[1], k[2]) # None
        /\ Outcome(symbols[k[1]].symbol[2], k[2]) # None
        /\ YYlen(Outcome(symbols[k[1]].symbol[2], k[2])) > YYlen(memo[k])

----------------------------------------------------------------------------
\* the sub-results of a Sequence, sub-matcher by sub-matcher, each matched
\* where the results before it end; stops behind the first one that fails
RECURSIVE SequenceRun(_, _, _, _)
SequenceRun(subs, idx, at, done) ==
    IF idx > Len(subs) THEN done
    ELSE LET o == Outcome(subs[idx], at)
         IN IF o = None THEN Append(done, [at |-> at, res |-> o])
            ELSE SequenceRun(subs, idx + 1, at + YYlen(o), Append(done, [at |-> at, res |-> o]))

RECURSIVE SumOfLens(_, _)
SumOfLens(run, n) == IF n = 0 THEN 0 ELSE SumOfLens(run, n - 1) + YYlen(run[n].res)

\* C4: Sequence(m1..mk) at i attempts sub-matcher j exactly at i plus the
\* consumed lengths of the results before it; it succeeds iff each succeeds
\* there, with exactly the k sub-results as children, in order, and their
\* lengths' sum as consumed length; otherwise the outcome is no-match.
C4_SequenceContiguous ==
    \A k \in Cached("Sequence") :
        LET self == k[1]
            i == k[2]
            subs == symbols[self].symbol
            run == SequenceRun(subs, 1, i, <<>>)
            failed == \E l \in 1 .. Len(run) : run[l].res = None
        IN /\ AttemptsOf(self, i) = {<<self, i, l, subs[l], run[l].at>> : l \in 1 .. Len(run)}
           /\ \A l \in 1 .. Len(run) : run[l].at = i + SumOfLens(run, l - 1)
           /\ IF failed THEN memo[k] = None
              ELSE /\ IsNode(memo[k])
                   /\ memo[k].pos = i
                   /\ memo[k].yytext = <<>>
                   /\ memo[k].child = [l \in 1 .. Len(subs) |-> run[l].res]
                   /\ YYlen(memo[k]) = SumOfLens(run, Len(run))

\* a Sequence matched whose first sub-result is a run of two repetitions,
\* longer than any pattern in it, with the second sub-result right behind it
C4_Witness ==
    \E k \in Cached("Sequence") :
        /\ IsNode(memo[k])
        /\ Len(memo[k].child) >= 2
        /\ Len(memo[k].child[1].child) >= 2
        /\ memo[k].child[2].pos = k[2] + YYlen(memo[k].child[1])

----------------------------------------------------------------------------
\* the repetitions of a Star: the successive non-empty matches of sub from
\* `at` on, and the position where sub fails or matches nothing
RECURSIVE StarRun(_, _, _)
StarRun(sub, at, done) ==
    LET o == Outcome(sub, at)
    IN IF o = None \/ YYlen(o) = 0 \/ at >= Len(inputSeq)
       THEN [child |-> done, stop |-> at, places |-> {}]
       ELSE LET rest == StarRun(sub, at + YYlen(o), Append(done, o))
            IN [rest EXCEPT !.places = @ \cup {at}]

\* Sequence(Star([a-b]), 'a') of the demo: "a*a will always fail"
StarThenLiteral == 15

\* C5: Star(m).match(s, i) terminates and always succeeds; its children are
\* exactly the successive non-empty matches of m from i on, and the loop stops
\* at the first position where m fails or matches zero characters; the run is
\* never shortened for what follows (a*a is no-match).
C5_StarGreedyTotal ==
    /\ ~last.diverged
    /\ ~last.raised
    /\ \A k \in Cached("Star") :
          LET self == k[1]
              i == k[2]
              sub == symbols[self].symbol[1]
              run == StarRun(sub, i, <<>>)
          IN /\ IsNode(memo[k])
             /\ memo[k].pos = i
             /\ memo[k].yytext = <<>>
             /\ memo[k].child = run.child
             /\ run.stop = i + YYlen(memo[k])
             /\ {t[5] : t \in AttemptsOf(self, i)} = run.places \cup {run.stop}
             /\ \A t \in AttemptsOf(self, i) : t[4] = sub
    /\ \A k \in DOMAIN memo : k[1] = StarThenLiteral => memo[k] = None

\* a Star took at least one repetition and stopped where its sub-matcher
\* matches, but matches nothing
C5_Witness ==
    \E k \in Cached("Star") :
        /\ IsNode(memo[k])
        /\ Len(memo[k].child) >= 1
        /\ LET o == Outcome(symbols[k[1]].symbol[1], k[2] + YYlen(memo[k]))
           IN o # None /\ YYlen(o) = 0

----------------------------------------------------------------------------
\* C6: And(m).match(s, i) succeeds iff m matches at i, Not(m).match(s, i)
\* succeeds iff m fails at i, and every successful result starts at i, has no
\* children and consumed length 0, however much m consumed.
C6_LookaheadZeroWidth ==
    /\ \A k \in Cached("And") :
          (memo[k] # None) <=> (Outcome(symbols[k[1]].symbol[1], k[2]) # None)
    /\ \A k \in Cached("Not") :
          (memo[k] # None) <=> (Outcome(symbols[k[1]].symbol[1], k[2]) = None)
    /\ \A k \in Cached("And") \cup Cached("Not") :
          memo[k] # None =>
             /\ IsNode(memo[k])
             /\ memo[k].pos = k[2]
             /\ memo[k].child = <<>>
             /\ YYlen(memo[k]) = 0

\* an And succeeded over a sub-matcher that consumed two characters
C6_Witness ==
    \E k \in Cached("And") :
        /\ IsNode(memo[k])
        /\ YYlen(Outcome(symbols[k[1]].symbol[1], k[2])) = 2

----------------------------------------------------------------------------
\* C7: String(p).match(s, i), 0 <= i <= len(s), succeeds iff s[i:i+len(p)]
\* is p; the result then starts at i, has consumed length len(p) and rendered
\* text p; on a mismatch or too short a rest the outcome is no-match.
C7_StringPrefix ==
    \A k \in Cached("String") :
        LET p == symbols[k[1]].pattern
        IN IF Matches(p, inputSeq, k[2])
           THEN /\ IsNode(memo[k])
                /\ memo[k].pos = k[2]
                /\ YYlen(memo[k]) = Len(p)
                /\ YYstr(memo[k]) = p
           ELSE memo[k] = None

\* a two-character pattern matched inside the input, behind its start
C7_Witness ==
    \E k \in Cached("String") :
        /\ IsNode(memo[k])
        /\ Len(symbols[k[1]].pattern) = 2
        /\ k[2] >= 1

----------------------------------------------------------------------------
SameOutcome(x, y) ==
    /\ (x = None) <=> (y = None)
    /\ x # None => (YYlen(x) = YYlen(y) /\ YYstr(x) = YYstr(y))

\* the Sequence(m, Star(m)) objects built apart from Plus object `self`
SequencesLikePlus(self) ==
    LET m == symbols[self].originalSymbol
    IN {q \in Symbols :
          /\ symbols[q].cls = "Sequence"
          /\ Len(symbols[q].symbol) = 2
          /\ symbols[q].symbol[1] = m
          /\ symbols[symbols[q].symbol[2]].cls = "Star"
          /\ symbols[symbols[q].symbol[2]].symbol = <<m>>
          /\ q # symbols[self].symbol[1]}

\* the matcher an Optional object was built over
OptionalOf(self) == symbols[symbols[self].symbol[1]].symbol[1]

\* the Choice(m, String('')) objects built apart from Optional object `self`
ChoicesLikeOptional(self) ==
    {q \in Symbols :
        /\ symbols[q].cls = "Choice"
        /\ Len(symbols[q].symbol) = 2
        /\ symbols[q].symbol[1] = OptionalOf(self)
        /\ symbols[symbols[q].symbol[2]].cls = "String"
        /\ symbols[symbols[q].symbol[2]].pattern = <<>>
        /\ q # symbols[self].symbol[1]}

\* C10: Plus(m).match(s, i) has the outcome of Sequence(m, Star(m)).match(s, i)
\* and fails iff m fails at i; Optional(m).match(s, i) has the outcome of
\* Choice(m, String('')).match(s, i), always succeeds, and consumes one match
\* of m or nothing.
C10_PlusOptionalDerived ==
    /\ \A k \in Cached("Plus") :
          /\ SequencesLikePlus(k[1]) # {}
          /\ \A q \in SequencesLikePlus(k[1]) : SameOutcome(memo[k], Outcome(q, k[2]))
          /\ (memo[k] = None) <=> (Outcome(symbols[k[1]].originalSymbol, k[2]) = None)
    /\ \A k \in Cached("Optional") :
          LET o == Outcome(OptionalOf(k[1]), k[2])
          IN /\ ChoicesLikeOptional(k[1]) # {}
             /\ \A q \in ChoicesLikeOptional(k[1]) : SameOutcome(memo[k], Outcome(q, k[2]))
             /\ IsNode(memo[k])
             /\ YYlen(memo[k]) = (IF o = None THEN 0 ELSE YYlen(o))

\* a Plus matched two repetitions or more
C10_Witness ==
    \E k \in Cached("Plus") :
        /\ IsNode(memo[k])
        /\ YYlen(memo[k]) >= 2
        /\ Len(memo[k].child) = 2
        /\ Len(memo[k].child[2].child) >= 1

----------------------------------------------------------------------------
\* what evaluating `node` has to return under the actions attached now
ExpectedValue(node) ==
    LET action == symbols[node.symbol].action
    IN CASE action = NoAction -> TextValue(YYstr(node))
         [] action = "Identifier_action" -> IdentValue(YYstr(node))
         [] action = "Sequence__action" ->
                SequenceValue([i \in DOMAIN node.child |-> YYcall(node.child[i])])

\* C8: evaluating a node applies the action its owning matcher has at that
\* moment (the rendered text when it has none), so an evaluation that follows
\* an attachment or replacement uses the new action, also for a node made
\* before it; and evaluating changes neither the tree nor the memo table.
C8_EvaluateUsesCurrentAction ==
    [][ last'.op = "evaluate" =>
          /\ symbols' = symbols
          /\ memo' = memo
          /\ tree' = tree
          /\ last'.value = ExpectedValue(last'.node)
          /\ symbols[last'.node.symbol].action = NoAction
                => last'.value = TextValue(YYstr(last'.node))
          /\ (last.op = "attach" /\ last.symbol = last'.node.symbol)
                => last'.value.by = (IF last.action = "Identifier_action"
                                     THEN "Ident" ELSE "Sequence")
      ]_vars

\* the tree of the matcher that was built with Sequence__action attached is
\* evaluated by the action that replaced it
C8_Witness ==
    /\ last.op = "evaluate"
    /\ last.node.symbol = PreAttached
    /\ last.node = tree
    /\ last.value = IdentValue(YYstr(tree))
    /\ Len(tree.child) = 2

----------------------------------------------------------------------------
\* C9: a memo key is absent or holds one outcome, no-match or a node; a cached
\* no-match is an entry, not an absent key; a written entry is never replaced
\* by another outcome; a match call that finds an entry returns it, so a
\* repeated call returns what the call before it returned.
C9_MemoWriteOnce ==
    [][ /\ \A k \in DOMAIN memo : k \in DOMAIN memo' /\ memo'[k] = memo[k]
        /\ \A k \in DOMAIN memo' : memo'[k] = None \/ IsNode(memo'[k])
        /\ last'.op = "match" =>
              LET k == <<last'.symbol, last'.pos>>
              IN /\ k \in DOMAIN memo'
                 /\ memo'[k] = last'.result
                 /\ k \in DOMAIN memo => last'.result = memo[k]
                 /\ (last.op = "match" /\ last.symbol = last'.symbol /\ last.pos = last'.pos)
                       => last'.result = last.result
      ]_vars

\* a repeated match call was answered by a cached no-match
C9_Witness ==
    /\ last.op = "match"
    /\ last.hit
    /\ last.result = None
    /\ memo[<<last.symbol, last.pos>>] = None

----------------------------------------------------------------------------
\* C11: a match call changes nothing except by inserting entries into the memo
\* table of the session it was given: the matchers' fields, the input and
\* the cursor of every session, the memo table of a session it was not given,
\* and every outcome already stored (a node's start, text and children)
\* are the same after the call as before it, match or no match
C11_MatchOnlyInsertsIntoGivenMemo ==
    [][last'.op = "match" =>
         /\ symbols' = symbols
         /\ inputSeq' = inputSeq /\ cursor' = cursor
         /\ second'.inputSeq = second.inputSeq /\ second'.pos = second.pos
         /\ last'.session # "given" => memo' = memo
         /\ last'.session # "second" => second'.memo = second.memo
         /\ \A k \in DOMAIN memo : k \in DOMAIN memo' /\ memo'[k] = memo[k]
         /\ \A k \in DOMAIN second.memo :
               k \in DOMAIN second'.memo /\ second'.memo[k] = second.memo[k]]_vars

\* a failed match on the second session has filled that session's memo table,
\* while the first session holds a tree with children in its own
C11_Witness ==
    /\ last.op = "match" /\ last.session = "second"
    /\ last.result = None /\ ~last.hit
    /\ second.memo # <<>>
    /\ \E k \in DOMAIN memo : IsNode(memo[k]) /\ Len(memo[k].child) >= 2

----------------------------------------------------------------------------
\* C12: for a matcher M of any variant, the node a successful M.match returns
\* is owned by M itself, so that evaluating it applies the action of M
C12_ReturnedNodeOwnedByMatcher ==
    last.op = "match" /\ IsNode(last.result) => last.result.symbol = last.symbol

----------------------------------------------------------------------------
RECURSIVE NodesOf(_)
\* a node, the nodes below it, and the nodes an ignored node hides
NodesOf(node) ==
    {node} \cup UNION {NodesOf(node.child[i]) : i \in DOMAIN node.child}
           \cup UNION {NodesOf(node.ignored[i]) : i \in DOMAIN node.ignored}

\* each child was appended where the node ended at that moment: the test of
\* YYtext.__add__ on the node with the children before it
AppendedAtRunningEnd(node) ==
    \A i \in DOMAIN node.child :
        LET before == [node EXCEPT !.child = SubSeq(@, 1, i - 1)]
        IN node.child[i].pos = before.pos + YYlen(before)

\* C13: a node stored under the key (matcher, p) starts at p; every node that
\* Sequence, Star and Choice appended starts at the running end of the node
\* it was appended to, so the contiguity test never fails inside the engine, no
\* call ends in an exception, and the undefined marker is neither returned
\* by match nor stored in the memo table
C13_StoredNodesStartAtKey ==
    /\ \A k \in DOMAIN memo :
          /\ memo[k] # Undefined
          /\ IsNode(memo[k]) =>
                /\ memo[k].pos = k[2]
                /\ \A node \in NodesOf(memo[k]) : AppendedAtRunningEnd(node)
    /\ last.op = "match" => ~last.raised /\ last.result # Undefined

\* a matcher called behind the start of the input has extended its node twice,
\* the second time behind a first child that consumed input
C13_Witness ==
    /\ last.op = "match" /\ IsNode(last.result)
    /\ \E k \in DOMAIN memo :
          /\ IsNode(memo[k]) /\ k[2] >= 1
          /\ Len(memo[k].child) >= 2
          /\ YYlen(memo[k].child[1]) >= 1
          /\ memo[k].child[2].pos = k[2] + YYlen(memo[k].child[1])

============================================================================
